---- MODULE Spec2Model ----
(***************************************************************************)
(* Model of main/utils/crash_test_suite.py: the CrashTestSuite class that  *)
(* drives an ESP32-S3 over a serial port, triggers crashes, classifies the *)
(* captured log lines and aggregates the per-test outcomes.                *)
(*                                                                         *)
(* run_test_suite is modelled as a sequential program whose position is    *)
(* pc; run_crash_test is inlined in it (positions "send", "soft",          *)
(* "observe", "recovery", "fold").  The device and the serial port are the *)
(* environment: what a read window delivers, and whether a port operation  *)
(* raises, are nondeterministic inputs.                                    *)
(***************************************************************************)
EXTENDS Integers, Sequences, FiniteSets, TLC

VARIABLES pc, serial_conn, tests_to_run, idx, suite_results, ret, result,
          lines, events, reader, verdict

\* the variables of run_test_suite
suite_vars == <<pc, serial_conn, tests_to_run, idx, suite_results, ret,
                result, lines, events>>

\* the variables of the specifications of the line reader and of the
\* classifiers taken alone
unit_vars == <<reader, verdict>>

vars == <<pc, serial_conn, tests_to_run, idx, suite_results, ret, result,
          lines, events, reader, verdict>>

\* pc            position of run_test_suite: "connect", "startup", "loop",
\*               inside run_crash_test "soft", "send", "observe", "recovery",
\*               "fold" (run_crash_test is returning), then "returned" or
\*               "raised"
\* serial_conn   self.serial_conn: "none" (None), "open", "closed"
\* tests_to_run  the argument of run_test_suite
\* idx           position of the for loop in tests_to_run
\* suite_results the local dict of run_test_suite
\* ret           what run_test_suite returned or raised
\* result        the local dict of run_crash_test
\* lines         the batch trigger_soft_crash_test captured, until the
\*               outcome is folded
\* events        history of the port operations, classifier calls and loop
\*               steps, in program order
\* reader        the frame of one call of read_serial_with_timeout (SpecReader)
\* verdict       what the classifiers returned for the batch in lines
\*               (SpecClassify)

-----------------------------------------------------------------------------
(* Bounds of the model                                                     *)

\* longest list of requested test identifiers
MaxTests == 2

\* most lines the device emits in one read window
MaxLines == 2

\* longest timeout of read_serial_with_timeout, in polls of the loop
MaxPolls == 2

\* most bytes the port delivers during one read_serial_with_timeout
MaxBytes == 3

-----------------------------------------------------------------------------
(* Program constants                                                       *)

StartupTimeout == 60

RecoveryTimeout == 30

SoftTimeout == 5

QuiescenceDelay == 5

None == "None"

\* self.crash_tests, in insertion order of the dict literal
crash_tests ==
  [soft_test       |-> [name |-> "Soft Test Crash", command |-> "TEST_CRASH_SOFT",
                        expect_reboot |-> FALSE, timeout |-> 10],
   null_pointer    |-> [name |-> "Null Pointer Dereference", command |-> "TEST_CRASH_NULL",
                        expect_reboot |-> TRUE, timeout |-> 15],
   stack_overflow  |-> [name |-> "Stack Overflow", command |-> "TEST_CRASH_STACK",
                        expect_reboot |-> TRUE, timeout |-> 15],
   heap_corruption |-> [name |-> "Heap Corruption", command |-> "TEST_CRASH_HEAP",
                        expect_reboot |-> TRUE, timeout |-> 15],
   assert_fail     |-> [name |-> "Assertion Failure", command |-> "TEST_CRASH_ASSERT",
                        expect_reboot |-> TRUE, timeout |-> 15],
   watchdog        |-> [name |-> "Watchdog Timeout", command |-> "TEST_CRASH_WATCHDOG",
                        expect_reboot |-> TRUE, timeout |-> 30]]

\* `test_name in self.crash_tests`
Known(test_name) == test_name \in DOMAIN crash_tests

ready_indicators ==
  <<"System Monitor - Fully Initialized",
    "Crash handler initialized",
    "Crash log manager initialized">>

reboot_indicators ==
  <<"ESP-ROM:esp32s3",
    "rst:0x",
    "ESP-IDF v5.5 2nd stage bootloader",
    "Loaded app from partition">>

test_indicators == <<"Test crash logged", "TEST:", "Manual crash test">>

\* names of the regular expressions of parse_crash_logs, in dict order
patterns == <<"init", "stored", "test_logged", "recovery">>

-----------------------------------------------------------------------------
(* The device's log lines.  The model draws every captured line from this  *)
(* fixed set of literal lines; the two tables below are the values of      *)
(* Python's `indicator in line` and re.search(pattern, line, IGNORECASE)   *)
(* on them.                                                                *)

LineSys == "I (412) main: System Monitor - Fully Initialized"

LineInit == "I (405) crash_log: Crash log manager initialized - 3 logs stored"

LineBoot == "rst:0xc (RTC_SW_CPU_RST),boot:0x8 (SPI_FAST_FLASH_BOOT)"

LineTest == "I (2210) crash: Test crash logged: manual"

LineMark == "TEST: heartbeat 17"

LineRecover == "I (398) crash_log: System recovered from crash: panic"

DeviceLines == {LineSys, LineInit, LineBoot, LineTest, LineMark}

\* <<indicator, line>> is listed exactly when `indicator in line` is true
SubstringTable ==
  { <<"System Monitor - Fully Initialized", LineSys>>,
    <<"Crash log manager initialized", LineInit>>,
    <<"rst:0x", LineBoot>>,
    <<"Test crash logged", LineTest>>,
    <<"TEST:", LineMark>> }

Contains(indicator, line) == <<indicator, line>> \in SubstringTable

\* <<pattern, line, groups>>: re.search(pattern, line) matches and
\* match.groups() is the tuple groups
MatchTable ==
  { <<"init", LineInit, <<"3">> >>,
    <<"stored", LineInit, <<>> >>,
    <<"test_logged", LineTest, <<"manual">> >>,
    <<"recovery", LineRecover, <<"panic">> >> }

Matches(pattern, line) == \E m \in MatchTable : m[1] = pattern /\ m[2] = line

Groups(pattern, line) ==
  (CHOOSE m \in MatchTable : m[1] = pattern /\ m[2] = line)[3]

\* every batch of lines a read window can deliver
Windows == UNION { [1..n -> DeviceLines] : n \in 0..MaxLines }

-----------------------------------------------------------------------------
(* Telemetry classifiers                                                   *)

RECURSIVE CountFound(_)
\* len(found_indicators): one entry per (line, indicator) with the
\* indicator in the line
CountFound(ls) ==
  IF ls = <<>> THEN 0
  ELSE Cardinality({ i \in 1..Len(ready_indicators) :
                       Contains(ready_indicators[i], Head(ls)) })
       + CountFound(Tail(ls))

\* the classification part of wait_for_system_ready
system_ready(ls) == CountFound(ls) >= 2

detect_reboot(ls) ==
  \E i \in 1..Len(ls) : \E j \in 1..Len(reboot_indicators) :
     Contains(reboot_indicators[j], ls[i])

\* the inner loop with a `break` after the first pattern that matches: at
\* most one event per line
LineEvents_first(line, p) ==
  LET ms == { q \in p..Len(patterns) : Matches(patterns[q], line) } IN
  IF ms = {} THEN <<>>
  ELSE LET q == CHOOSE m \in ms : \A n \in ms : m <= n IN
       << [type |-> patterns[q], line |-> line,
           data |-> Groups(patterns[q], line)] >>

RECURSIVE LineEvents(_, _)
\* the inner loop of parse_crash_logs over the patterns from position p
LineEvents(line, p) ==
  IF p > Len(patterns) THEN <<>>
  ELSE (IF Matches(patterns[p], line)
        THEN << [type |-> patterns[p], line |-> line,
                 data |-> Groups(patterns[p], line)] >>
        ELSE <<>>)
       \o LineEvents(line, p + 1)

RECURSIVE parse_crash_logs(_)
\* data is match.groups(), or None (modelled as the empty tuple) when the
\* pattern has no group
parse_crash_logs(ls) ==
  IF ls = <<>> THEN <<>>
  ELSE LineEvents(Head(ls), 1) \o parse_crash_logs(Tail(ls))

\* the scan of trigger_soft_crash_test
found_test(ls) ==
  \E i \in 1..Len(ls) : \E j \in 1..Len(test_indicators) :
     Contains(test_indicators[j], ls[i])

-----------------------------------------------------------------------------
(* Serial port                                                             *)

\* the outcomes of one call of read_serial_with_timeout: it returns the
\* window's lines, or the in_waiting query (outside the try) raises
read_serial_with_timeout ==
  { [raised |-> FALSE, lines |-> w] : w \in Windows }
  \cup { [raised |-> TRUE, lines |-> <<>>] }

\* str(e) of the exception a port operation raises
PortError == "SerialException: device disconnected"

disconnect(conn) == IF conn = "open" THEN "closed" ELSE conn

-----------------------------------------------------------------------------
(* Records                                                                 *)

Ev(op, name, n) == [op |-> op, name |-> name, n |-> n]

\* the dict run_crash_test starts from
NewResult(test_name) ==
  [test_name |-> test_name, success |-> FALSE, crash_detected |-> FALSE,
   reboot_detected |-> FALSE, crash_logs |-> <<>>, error |-> None]

NoResult == NewResult("")

\* the dict run_test_suite starts from; created is FALSE while the local
\* suite_results is still unbound
NewSuite ==
  [created |-> TRUE, tests |-> <<>>,
   summary |-> [total |-> 0, passed |-> 0, failed |-> 0, errors |-> 0],
   end_time |-> FALSE]

NoSuite == [NewSuite EXCEPT !.created = FALSE]

NoReturn == [kind |-> "none", error |-> None]

\* `result.get('error')` as a condition
HasError(r) == r.error # None /\ r.error # ""

-----------------------------------------------------------------------------
(* run_crash_test: the decisions                                           *)

DetermineSuccess(expect_reboot, reboot_detected, crash_detected) ==
  IF expect_reboot
  THEN reboot_detected /\ crash_detected
  ELSE crash_detected /\ ~reboot_detected

\* AfterRecovery as an assignment of the readiness verdict: a device that
\* recovers turns a failed test into a success
AfterRecovery_ready(success, ready) == ready

AfterRecovery(success, ready) == IF ready THEN success ELSE FALSE

-----------------------------------------------------------------------------
(* run_test_suite: the aggregation                                         *)

\* CountOutcome with `if` in place of `elif`: an outcome with an error is
\* counted a second time by its success flag
CountOutcome_noelif(summary, r) ==
  LET s == [summary EXCEPT !.total = @ + 1]
      e == IF HasError(r) THEN [s EXCEPT !.errors = @ + 1] ELSE s
  IN IF r.success THEN [e EXCEPT !.passed = @ + 1]
     ELSE [e EXCEPT !.failed = @ + 1]

\* CountOutcome testing the success flag before the error
CountOutcome_successFirst(summary, r) ==
  LET s == [summary EXCEPT !.total = @ + 1] IN
  IF r.success THEN [s EXCEPT !.passed = @ + 1]
  ELSE IF HasError(r) THEN [s EXCEPT !.errors = @ + 1]
  ELSE [s EXCEPT !.failed = @ + 1]

CountOutcome(summary, r) ==
  LET s == [summary EXCEPT !.total = @ + 1] IN
  IF HasError(r) THEN [s EXCEPT !.errors = @ + 1]
  ELSE IF r.success THEN [s EXCEPT !.passed = @ + 1]
  ELSE [s EXCEPT !.failed = @ + 1]

Record(suite, r) ==
  [suite EXCEPT !.tests = (r.test_name :> r) @@ @,
                !.summary = CountOutcome(@, r)]

\* `test_name != tests_to_run[-1]`
DelayAfter(test_name, requested) == test_name # requested[Len(requested)]

-----------------------------------------------------------------------------
(* Initial state: a CrashTestSuite after __init__, about to run            *)
(* run_test_suite(tests_to_run)                                            *)

\* no call of read_serial_with_timeout is in progress
NoReader ==
  [pc |-> "idle", timeout |-> 0, elapsed |-> 0, buffer |-> <<>>,
   lines |-> <<>>, received |-> <<>>, last |-> "none"]

\* no classifier has returned
NoVerdict == [done |-> {}, ready |-> FALSE, reboot |-> FALSE,
              crash_logs |-> <<>>, found |-> FALSE]

RequestIds == {"soft_test", "null_pointer", "bogus"}

Init ==
  /\ tests_to_run \in UNION { [1..n -> RequestIds] : n \in 0..MaxTests }
  /\ pc = "connect"
  /\ serial_conn = "none"
  /\ idx = 1
  /\ suite_results = NoSuite
  /\ ret = NoReturn
  /\ result = NoResult
  /\ lines = <<>>
  /\ events = <<>>
  /\ reader = NoReader
  /\ verdict = NoVerdict

-----------------------------------------------------------------------------
(* run_test_suite                                                          *)

\* `if not self.connect(): return {'error': 'Connection failed'}`.
\* serial.Serial(...) may raise (no port object), or the port opens and a
\* reset_*_buffer call raises (self.serial_conn is already the open port).
Connect ==
  /\ pc = "connect"
  /\ \E outcome \in {"ok", "open_failed", "reset_failed"} :
       /\ serial_conn' = IF outcome = "open_failed" THEN serial_conn ELSE "open"
       /\ IF outcome = "ok"
          THEN pc' = "startup" /\ ret' = ret
          ELSE pc' = "returned" /\ ret' = [kind |-> "error", error |-> "Connection failed"]
       /\ events' = Append(events, Ev("connect", outcome, 0))
  /\ UNCHANGED <<tests_to_run, idx, suite_results, result, lines>>
  /\ UNCHANGED unit_vars

\* StartupWait without the early return: a device that is not ready is
\* tested all the same
StartupWait_noabort ==
  /\ pc = "startup"
  /\ \E out \in read_serial_with_timeout :
       LET ev == Append(events, Ev("read", "startup", StartupTimeout)) IN
       IF out.raised
       THEN /\ pc' = "raised"
            /\ ret' = [kind |-> "exception", error |-> PortError]
            /\ events' = Append(ev, Ev("raise", "startup", 0))
            /\ UNCHANGED <<serial_conn, suite_results>>
       ELSE /\ suite_results' = NewSuite
            /\ pc' = "loop"
            /\ events' = IF system_ready(out.lines) THEN ev
                          ELSE Append(ev, Ev("not_ready", "startup", 0))
            /\ UNCHANGED <<serial_conn, ret>>
  /\ UNCHANGED <<tests_to_run, idx, result, lines>>
  /\ UNCHANGED unit_vars

\* `if not self.wait_for_system_ready(): self.disconnect(); return {...}`
\* followed by the creation of suite_results
StartupWait ==
  /\ pc = "startup"
  /\ \E out \in read_serial_with_timeout :
       LET ev == Append(events, Ev("read", "startup", StartupTimeout)) IN
       IF out.raised
       THEN /\ pc' = "raised"
            /\ ret' = [kind |-> "exception", error |-> PortError]
            /\ events' = Append(ev, Ev("raise", "startup", 0))
            /\ UNCHANGED <<serial_conn, suite_results>>
       ELSE IF ~system_ready(out.lines)
       THEN /\ serial_conn' = disconnect(serial_conn)
            /\ pc' = "returned"
            /\ ret' = [kind |-> "error", error |-> "System not ready"]
            /\ events' = Append(ev, Ev("not_ready", "startup", 0))
            /\ UNCHANGED suite_results
       ELSE /\ suite_results' = NewSuite
            /\ pc' = "loop"
            /\ events' = ev
            /\ UNCHANGED <<serial_conn, ret>>
  /\ UNCHANGED <<tests_to_run, idx, result, lines>>
  /\ UNCHANGED unit_vars

\* NextTest counting an unknown identifier as a failed test
NextTest_countskip ==
  /\ pc = "loop"
  /\ idx <= Len(tests_to_run)
  /\ LET test_name == tests_to_run[idx] IN
       IF Known(test_name)
       THEN /\ result' = NewResult(test_name)
            /\ pc' = IF test_name = "soft_test" THEN "soft" ELSE "send"
            /\ idx' = idx
            /\ events' = Append(events, Ev("begin", test_name, idx))
            /\ suite_results' = suite_results
       ELSE /\ idx' = idx + 1
            /\ pc' = pc
            /\ result' = result
            /\ events' = Append(events, Ev("skip", test_name, idx))
            /\ suite_results' = [suite_results EXCEPT
                  !.summary.total = @ + 1, !.summary.failed = @ + 1]
  /\ UNCHANGED <<serial_conn, tests_to_run, ret, lines>>
  /\ UNCHANGED unit_vars

\* NextTest without the special handling of soft_test: the soft test sends
\* its command like the other tests
NextTest_nosoft ==
  /\ pc = "loop"
  /\ idx <= Len(tests_to_run)
  /\ LET test_name == tests_to_run[idx] IN
       IF Known(test_name)
       THEN /\ result' = NewResult(test_name)
            /\ pc' = "send"
            /\ idx' = idx
            /\ events' = Append(events, Ev("begin", test_name, idx))
       ELSE /\ idx' = idx + 1
            /\ pc' = pc
            /\ result' = result
            /\ events' = Append(events, Ev("skip", test_name, idx))
  /\ UNCHANGED <<serial_conn, tests_to_run, suite_results, ret, lines>>
  /\ UNCHANGED unit_vars

\* the head of the for loop: an unknown identifier is skipped, a known one
\* enters run_crash_test up to its first port operation
NextTest ==
  /\ pc = "loop"
  /\ idx <= Len(tests_to_run)
  /\ LET test_name == tests_to_run[idx] IN
       IF Known(test_name)
       THEN /\ result' = NewResult(test_name)
            /\ pc' = IF test_name = "soft_test" THEN "soft" ELSE "send"
            /\ idx' = idx
            /\ events' = Append(events, Ev("begin", test_name, idx))
       ELSE /\ idx' = idx + 1
            /\ pc' = pc
            /\ result' = result
            /\ events' = Append(events, Ev("skip", test_name, idx))
  /\ UNCHANGED <<serial_conn, tests_to_run, suite_results, ret, lines>>
  /\ UNCHANGED unit_vars

\* the loop is exhausted: the finally clause, then `return suite_results`
Finish ==
  /\ pc = "loop"
  /\ idx > Len(tests_to_run)
  /\ suite_results' = [suite_results EXCEPT !.end_time = TRUE]
  /\ serial_conn' = disconnect(serial_conn)
  /\ pc' = "returned"
  /\ ret' = [kind |-> "suite", error |-> None]
  /\ UNCHANGED <<tests_to_run, idx, result, lines, events>>
  /\ UNCHANGED unit_vars

\* a KeyboardInterrupt between two tests (in a print or in time.sleep of the
\* loop body): not an Exception, it leaves the loop through the finally
\* clause and propagates
Interrupt ==
  /\ pc = "loop"
  /\ idx <= Len(tests_to_run)
  /\ suite_results' = [suite_results EXCEPT !.end_time = TRUE]
  /\ serial_conn' = disconnect(serial_conn)
  /\ pc' = "raised"
  /\ ret' = [kind |-> "exception", error |-> "KeyboardInterrupt"]
  /\ events' = Append(events, Ev("raise", "loop", 0))
  /\ UNCHANGED <<tests_to_run, idx, result, lines>>
  /\ UNCHANGED unit_vars

-----------------------------------------------------------------------------
(* run_crash_test                                                          *)

\* SoftTest without the special handling: the window goes through the two
\* classifiers and the expect_reboot policy
SoftTest_policy ==
  /\ pc = "soft"
  /\ \E out \in read_serial_with_timeout :
       LET ev == Append(events, Ev("read", "soft", SoftTimeout)) IN
       IF out.raised
       THEN /\ result' = [result EXCEPT !.error = PortError]
            /\ lines' = <<>>
            /\ events' = Append(ev, Ev("raise", "soft", 0))
       ELSE /\ result' = [result EXCEPT !.success =
                  DetermineSuccess(crash_tests[result.test_name].expect_reboot,
                                   detect_reboot(out.lines),
                                   Len(parse_crash_logs(out.lines)) > 0)]
            /\ lines' = out.lines
            /\ events' = ev
  /\ pc' = "fold"
  /\ UNCHANGED <<serial_conn, tests_to_run, idx, suite_results, ret>>
  /\ UNCHANGED unit_vars

\* the soft_test branch: trigger_soft_crash_test and the early return;
\* lines keeps the batch trigger_soft_crash_test scanned until the outcome
\* is folded
SoftTest ==
  /\ pc = "soft"
  /\ \E out \in read_serial_with_timeout :
       LET ev == Append(events, Ev("read", "soft", SoftTimeout)) IN
       IF out.raised
       THEN /\ result' = [result EXCEPT !.error = PortError]
            /\ lines' = <<>>
            /\ events' = Append(ev, Ev("raise", "soft", 0))
       ELSE /\ result' = [result EXCEPT !.success = found_test(out.lines)]
            /\ lines' = out.lines
            /\ events' = ev
  /\ pc' = "fold"
  /\ UNCHANGED <<serial_conn, tests_to_run, idx, suite_results, ret>>
  /\ UNCHANGED unit_vars

\* SendCommand without the `return result` after a failed send
SendCommand_noreturn ==
  /\ pc = "send"
  /\ \E sent \in BOOLEAN :
       IF sent
       THEN /\ result' = result
            /\ events' = Append(events,
                 Ev("write", crash_tests[result.test_name].command, 0))
       ELSE /\ result' = [result EXCEPT !.error = "Failed to send command"]
            /\ events' = Append(events, Ev("send_failed", result.test_name, 0))
  /\ pc' = "observe"
  /\ UNCHANGED <<serial_conn, tests_to_run, idx, suite_results, ret, lines>>
  /\ UNCHANGED unit_vars

\* `if not self.send_command(...)`: write or flush may raise inside
\* send_command, which then returns False
SendCommand ==
  /\ pc = "send"
  /\ \E sent \in BOOLEAN :
       IF sent
       THEN /\ pc' = "observe"
            /\ result' = result
            /\ events' = Append(events,
                 Ev("write", crash_tests[result.test_name].command, 0))
       ELSE /\ pc' = "fold"
            /\ result' = [result EXCEPT !.error = "Failed to send command"]
            /\ events' = Append(events, Ev("send_failed", result.test_name, 0))
  /\ UNCHANGED <<serial_conn, tests_to_run, idx, suite_results, ret, lines>>
  /\ UNCHANGED unit_vars

\* Observe without the `except Exception` of run_crash_test: a port error
\* in the observation window leaves run_test_suite through its finally clause
Observe_propagate ==
  /\ pc = "observe"
  /\ LET test_config == crash_tests[result.test_name] IN
     \E out \in read_serial_with_timeout :
       LET ev == Append(events, Ev("read", "observe", test_config.timeout)) IN
       IF out.raised
       THEN /\ result' = result
            /\ pc' = "raised"
            /\ suite_results' = [suite_results EXCEPT !.end_time = TRUE]
            /\ serial_conn' = disconnect(serial_conn)
            /\ ret' = [kind |-> "exception", error |-> PortError]
            /\ events' = Append(ev, Ev("raise", "observe", 0))
       ELSE LET reboot == detect_reboot(out.lines)
                logs == parse_crash_logs(out.lines)
                crash == Len(logs) > 0
            IN /\ result' = [result EXCEPT
                     !.reboot_detected = reboot,
                     !.crash_logs = logs,
                     !.crash_detected = crash,
                     !.success = DetermineSuccess(test_config.expect_reboot,
                                                  reboot, crash)]
               /\ pc' = IF reboot THEN "recovery" ELSE "fold"
               /\ events' = ev \o << Ev("detect_reboot", "", 0),
                                     Ev("parse_crash_logs", "", 0) >>
               /\ UNCHANGED <<serial_conn, suite_results, ret>>
  /\ UNCHANGED <<tests_to_run, idx, lines>>
  /\ UNCHANGED unit_vars

\* the observation window, the two classifiers and the success decision;
\* the captured batch is consumed here and lives on as the outcome's
\* crash_logs and reboot_detected
Observe ==
  /\ pc = "observe"
  /\ LET test_config == crash_tests[result.test_name] IN
     \E out \in read_serial_with_timeout :
       LET ev == Append(events, Ev("read", "observe", test_config.timeout)) IN
       IF out.raised
       THEN /\ result' = [result EXCEPT !.error = PortError]
            /\ pc' = "fold"
            /\ events' = Append(ev, Ev("raise", "observe", 0))
       ELSE LET reboot == detect_reboot(out.lines)
                logs == parse_crash_logs(out.lines)
                crash == Len(logs) > 0
            IN /\ result' = [result EXCEPT
                     !.reboot_detected = reboot,
                     !.crash_logs = logs,
                     !.crash_detected = crash,
                     !.success = DetermineSuccess(test_config.expect_reboot,
                                                  reboot, crash)]
               /\ pc' = IF reboot THEN "recovery" ELSE "fold"
               /\ events' = ev \o << Ev("detect_reboot", "", 0),
                                     Ev("parse_crash_logs", "", 0) >>
  /\ UNCHANGED <<serial_conn, tests_to_run, idx, suite_results, ret, lines>>
  /\ UNCHANGED unit_vars

\* `if result['reboot_detected']: if self.wait_for_system_ready(30.0)`
RecoveryWait ==
  /\ pc = "recovery"
  /\ \E out \in read_serial_with_timeout :
       LET ev == Append(events, Ev("read", "recovery", RecoveryTimeout)) IN
       IF out.raised
       THEN /\ result' = [result EXCEPT !.error = PortError]
            /\ events' = Append(ev, Ev("raise", "recovery", 0))
       ELSE /\ result' = [result EXCEPT
                  !.success = AfterRecovery(@, system_ready(out.lines))]
            /\ events' = Append(ev,
                 Ev(IF system_ready(out.lines) THEN "recovered"
                    ELSE "not_recovered", "", 0))
  /\ pc' = "fold"
  /\ UNCHANGED <<serial_conn, tests_to_run, idx, suite_results, ret, lines>>
  /\ UNCHANGED unit_vars

\* run_crash_test returns; the loop body stores and counts the outcome and
\* sleeps unless the test's name is the last requested name
Fold ==
  /\ pc = "fold"
  /\ suite_results' = Record(suite_results, result)
  /\ events' = Append(events, Ev("end", result.test_name, idx))
       \o (IF DelayAfter(result.test_name, tests_to_run)
           THEN << Ev("sleep", "", QuiescenceDelay) >> ELSE <<>>)
  /\ idx' = idx + 1
  /\ lines' = <<>>
  /\ pc' = "loop"
  /\ UNCHANGED <<serial_conn, tests_to_run, ret, result>>
  /\ UNCHANGED unit_vars

Next ==
  \/ Connect
  \/ StartupWait
  \/ NextTest
  \/ Finish
  \/ Interrupt
  \/ SoftTest
  \/ SendCommand
  \/ Observe
  \/ RecoveryWait
  \/ Fold

Spec == Init /\ [][Next]_vars

-----------------------------------------------------------------------------
(* read_serial_with_timeout taken alone, poll by poll.  The port delivers  *)
(* bytes of a small alphabet: an ASCII letter, a space, a line feed, and   *)
(* the two bytes 0xC3 0xA9 of the UTF-8 encoding of one non-ASCII letter.  *)
(* Time is counted in polls: every pass of the loop sleeps and so moves    *)
(* the clock by one.                                                       *)

PortBytes == {"a", "sp", "lf", "xC3", "xA9"}

RECURSIVE utf8_decode(_)
\* bytes.decode('utf-8', errors='ignore') of one chunk: a lead byte without
\* its continuation byte, and a continuation byte without its lead, are
\* dropped
utf8_decode(bs) ==
  IF bs = <<>> THEN <<>>
  ELSE IF Head(bs) = "xC3"
       THEN IF Len(bs) >= 2 /\ bs[2] = "xA9"
            THEN <<"eacute">> \o utf8_decode(Tail(Tail(bs)))
            ELSE utf8_decode(Tail(bs))
  ELSE IF Head(bs) = "xA9" THEN utf8_decode(Tail(bs))
  ELSE <<Head(bs)>> \o utf8_decode(Tail(bs))

RECURSIVE strip(_)
\* str.strip(): the surrounding white space is removed
strip(line) ==
  IF line = <<>> THEN <<>>
  ELSE IF Head(line) = "sp" THEN strip(Tail(line))
  ELSE IF line[Len(line)] = "sp" THEN strip(SubSeq(line, 1, Len(line) - 1))
  ELSE line

\* `'\n' in buffer`
HasLf(buffer) == \E i \in 1..Len(buffer) : buffer[i] = "lf"

\* position of the first line feed of a buffer that has one
FirstLf(buffer) ==
  CHOOSE i \in 1..Len(buffer) :
    buffer[i] = "lf" /\ \A j \in 1..(i - 1) : buffer[j] # "lf"

RECURSIVE SplitLines(_, _)
\* the `while '\n' in buffer` loop: the pair of the lines list and the
\* buffer it leaves
SplitLines(ls, buffer) ==
  IF ~HasLf(buffer) THEN <<ls, buffer>>
  ELSE LET k == FirstLf(buffer)
           line == strip(SubSeq(buffer, 1, k - 1))
           rest == SubSeq(buffer, k + 1, Len(buffer))
       IN SplitLines(IF line # <<>> THEN Append(ls, line) ELSE ls, rest)

\* KeepPolling leaving the loop as soon as a line has been captured
KeepPolling_untilLine(r) == r.elapsed < r.timeout /\ r.lines = <<>>

\* the condition of the while loop
KeepPolling(r) == r.elapsed < r.timeout

\* the chunks the port can hold at a poll
Chunks(r) ==
  UNION { [1..n -> PortBytes] : n \in 1..(MaxBytes - Len(r.received)) }

ReaderInit ==
  /\ \E t \in 1..MaxPolls :
       reader = [pc |-> "loop", timeout |-> t, elapsed |-> 0, buffer |-> <<>>,
                 lines |-> <<>>, received |-> <<>>, last |-> "none"]
  /\ pc = "reading"
  /\ serial_conn = "open"
  /\ tests_to_run = <<>>
  /\ idx = 1
  /\ suite_results = NoSuite
  /\ ret = NoReturn
  /\ result = NoResult
  /\ lines = <<>>
  /\ events = <<>>
  /\ verdict = NoVerdict

\* `if self.serial_conn.in_waiting > 0` raises: the query is outside the
\* try, the exception leaves read_serial_with_timeout
PollQueryFails ==
  /\ reader.pc = "loop"
  /\ KeepPolling(reader)
  /\ reader' = [reader EXCEPT !.pc = "raised", !.last = "query_error"]
  /\ UNCHANGED <<suite_vars, verdict>>

\* in_waiting is 0: the pass only sleeps
PollNoData ==
  /\ reader.pc = "loop"
  /\ KeepPolling(reader)
  /\ reader' = [reader EXCEPT !.elapsed = @ + 1, !.last = "no_data"]
  /\ UNCHANGED <<suite_vars, verdict>>

\* in_waiting is positive and read (or the second in_waiting query) raises
\* inside the try: the exception is printed, the pass sleeps
PollReadFails ==
  /\ reader.pc = "loop"
  /\ KeepPolling(reader)
  /\ reader' = [reader EXCEPT !.elapsed = @ + 1, !.last = "read_error"]
  /\ UNCHANGED <<suite_vars, verdict>>

\* in_waiting is positive and read returns the chunk: it is decoded,
\* appended to the buffer, and the complete lines are taken out
PollData ==
  /\ reader.pc = "loop"
  /\ KeepPolling(reader)
  /\ \E chunk \in Chunks(reader) :
       LET split == SplitLines(reader.lines,
                               reader.buffer \o utf8_decode(chunk))
       IN reader' = [reader EXCEPT !.received = @ \o chunk,
                                   !.lines = split[1],
                                   !.buffer = split[2],
                                   !.elapsed = @ + 1,
                                   !.last = "data"]
  /\ UNCHANGED <<suite_vars, verdict>>

\* the loop condition is false: `return lines`
ReaderReturn ==
  /\ reader.pc = "loop"
  /\ ~KeepPolling(reader)
  /\ reader' = [reader EXCEPT !.pc = "returned"]
  /\ UNCHANGED <<suite_vars, verdict>>

ReaderNext ==
  \/ PollQueryFails
  \/ PollNoData
  \/ PollReadFails
  \/ PollData
  \/ ReaderReturn

SpecReader == ReaderInit /\ [][ReaderNext]_vars

\* the interpreter keeps running the loop
SpecReaderFair == SpecReader /\ WF_vars(ReaderNext)

-----------------------------------------------------------------------------
(* The classifiers taken alone: each is applied once to a batch of lines   *)
(* that read_serial_with_timeout returned                                  *)

\* the batches the classifiers are applied to: the suite's lines and a
\* line of the recovery report
ClassifyWindows ==
  UNION { [1..n -> DeviceLines \cup {LineRecover}] : n \in 0..MaxLines }

ClassifyInit ==
  /\ lines \in ClassifyWindows
  /\ pc = "classify"
  /\ serial_conn = "open"
  /\ tests_to_run = <<>>
  /\ idx = 1
  /\ suite_results = NoSuite
  /\ ret = NoReturn
  /\ result = NoResult
  /\ events = <<>>
  /\ reader = NoReader
  /\ verdict = NoVerdict

\* the classification of wait_for_system_ready
WaitReady ==
  /\ pc = "classify"
  /\ "ready" \notin verdict.done
  /\ verdict' = [verdict EXCEPT !.done = @ \cup {"ready"},
                                !.ready = system_ready(lines)]
  /\ UNCHANGED <<suite_vars, reader>>

DetectReboot ==
  /\ pc = "classify"
  /\ "reboot" \notin verdict.done
  /\ verdict' = [verdict EXCEPT !.done = @ \cup {"reboot"},
                                !.reboot = detect_reboot(lines)]
  /\ UNCHANGED <<suite_vars, reader>>

ParseCrashLogs ==
  /\ pc = "classify"
  /\ "crash_logs" \notin verdict.done
  /\ verdict' = [verdict EXCEPT !.done = @ \cup {"crash_logs"},
                                !.crash_logs = parse_crash_logs(lines)]
  /\ UNCHANGED <<suite_vars, reader>>

\* the scan of trigger_soft_crash_test
FindTest ==
  /\ pc = "classify"
  /\ "found" \notin verdict.done
  /\ verdict' = [verdict EXCEPT !.done = @ \cup {"found"},
                                !.found = found_test(lines)]
  /\ UNCHANGED <<suite_vars, reader>>

ClassifyNext ==
  \/ WaitReady
  \/ DetectReboot
  \/ ParseCrashLogs
  \/ FindTest

SpecClassify == ClassifyInit /\ [][ClassifyNext]_vars

-----------------------------------------------------------------------------
(* Vocabulary of the properties                                            *)

IsBegin(e) == e.op = "begin"

IsEnd(e) == e.op = "end"

\* position in events of the `begin` of the test entered last, 0 if none
LastBegin ==
  IF \E i \in 1..Len(events) : IsBegin(events[i])
  THEN CHOOSE i \in 1..Len(events) :
         /\ IsBegin(events[i])
         /\ \A j \in (i + 1)..Len(events) : ~IsBegin(events[j])
  ELSE 0

\* the test entered last has performed op
InTest(op) ==
  /\ LastBegin > 0
  /\ \E i \in LastBegin..Len(events) : events[i].op = op

TestPhases == {"soft", "observe", "recovery"}

\* a port operation of the test entered last has raised
TestRaised ==
  /\ LastBegin > 0
  /\ \E i \in LastBegin..Len(events) :
       \/ events[i].op = "raise" /\ events[i].name \in TestPhases
       \/ events[i].op = "send_failed"

LastTestName == events[LastBegin].name

\* the outcome of run_crash_test is complete
OutcomeReady == pc = "fold"

\* run_test_suite has returned or raised
Exited == pc \in {"returned", "raised"}

ExpectReboot == crash_tests[result.test_name].expect_reboot

MarkerSeen(ls) == \E i \in 1..Len(ls) : ls[i] \in {LineTest, LineMark}

BannerSeen(ls) == \E i \in 1..Len(ls) : ls[i] = LineBoot

CrashLogSeen(ls) ==
  \E i \in 1..Len(ls) : ls[i] \in {LineInit, LineTest}

-----------------------------------------------------------------------------
(* Properties                                                              *)

\* C1: for a test that expects a reboot, the outcome is a success if and
\* only if a reboot was detected, a crash-log event was captured and the
\* recovery wait confirmed readiness.
C1_RebootTestSuccess ==
  (OutcomeReady /\ ExpectReboot) =>
     (result.success <=>
        (result.reboot_detected /\ result.crash_detected /\ InTest("recovered")))

\* C2: an outcome of run_crash_test whose error is set has not succeeded.
C2_ErrorImpliesNotSucceeded ==
  OutcomeReady => (HasError(result) => ~result.success)

\* C3: when run_test_suite has returned or raised, the serial port is not
\* open.
C3_ConnectionClosedOnExit == Exited => serial_conn # "open"

\* C4: the passed, failed and errors counters always add up to total.
C4_TotalsAddUp ==
  LET s == suite_results.summary IN s.passed + s.failed + s.errors = s.total

C4_Witness ==
  LET s == suite_results.summary IN
  s.total = 2 /\ s.errors = 1 /\ (s.passed = 1 \/ s.failed = 1)

\* C5: once the suite is finalized, total is the number of recorded
\* outcomes.
C5_TotalEqualsOutcomes ==
  (Exited /\ suite_results.end_time) =>
     suite_results.summary.total = Cardinality(DOMAIN suite_results.tests)

\* C6: folding an outcome increments total and exactly one other counter:
\* errors if its error is set, otherwise passed if it succeeded, otherwise
\* failed.
C6_ExactlyOneCounter ==
  [][ pc = "fold" =>
        LET s == suite_results.summary
            t == suite_results'.summary
            e == IF HasError(result) THEN 1 ELSE 0
            p == IF ~HasError(result) /\ result.success THEN 1 ELSE 0
            f == IF ~HasError(result) /\ ~result.success THEN 1 ELSE 0
        IN /\ t.total = s.total + 1
           /\ t.errors = s.errors + e
           /\ t.passed = s.passed + p
           /\ t.failed = s.failed + f ]_vars

\* an outcome with an error and a true success flag was counted as an error
C6_Witness ==
  /\ pc = "loop"
  /\ suite_results.summary = [total |-> 1, passed |-> 0, failed |-> 0, errors |-> 1]
  /\ \E n \in DOMAIN suite_results.tests :
       HasError(suite_results.tests[n]) /\ suite_results.tests[n].success

\* C7: a port error in a phase of a test is recorded in that test's outcome
\* and stays inside run_crash_test: the outcome is stored and counted, and a
\* suite that returns has entered every known requested test, in order.
C7_TestErrorsContained ==
  /\ (OutcomeReady /\ TestRaised) => HasError(result)
  /\ pc \in {"loop", "returned", "raised"} =>
       /\ Len(SelectSeq(events, IsBegin)) = Len(SelectSeq(events, IsEnd))
       /\ Len(SelectSeq(events, IsEnd)) = suite_results.summary.total
       /\ TestRaised =>
            /\ LastTestName \in DOMAIN suite_results.tests
            /\ HasError(suite_results.tests[LastTestName])
  /\ (pc = "returned" /\ ret.kind = "suite") =>
       LET begun == SelectSeq(events, IsBegin) IN
       [i \in 1..Len(begun) |-> begun[i].name] = SelectSeq(tests_to_run, Known)

\* a test raised in its observation or recovery window, a later test was
\* entered and the suite returned its results
C7_Witness ==
  /\ pc = "returned"
  /\ ret.kind = "suite"
  /\ \E i, j \in 1..Len(events) :
       /\ i < j
       /\ events[i].op = "raise"
       /\ events[i].name \in {"observe", "recovery"}
       /\ IsBegin(events[j])

\* C8: after a failed send the test performs no read, no classification and
\* no recovery wait, and its outcome has the error set and has not
\* succeeded.
C8_SendFailureSkipsObservation ==
  InTest("send_failed") =>
     /\ pc \in {"fold", "loop", "returned", "raised"}
     /\ \A op \in {"write", "read", "detect_reboot", "parse_crash_logs",
                   "recovered", "not_recovered"} : ~InTest(op)
     /\ LET r == IF pc = "fold" THEN result
                 ELSE suite_results.tests[LastTestName]
        IN /\ r.error = "Failed to send command"
           /\ ~r.success
           /\ ~r.crash_detected
           /\ ~r.reboot_detected
           /\ r.crash_logs = <<>>

C8_Witness ==
  /\ pc = "loop"
  /\ InTest("send_failed")
  /\ InTest("end")
  /\ suite_results.summary.errors >= 1

\* the connection failed, or the startup window did not confirm readiness
StartupFailed ==
  \E i \in 1..Len(events) :
     \/ events[i].op = "connect" /\ events[i].name # "ok"
     \/ events[i].op = "not_ready"

\* C9: when the connection fails or the startup window does not confirm
\* readiness, run_test_suite returns a suite-level error: no results exist,
\* no command was written and no test was entered.
C9_StartupFailureAborts ==
  StartupFailed =>
     /\ pc = "returned"
     /\ ret.kind = "error"
     /\ suite_results = NoSuite
     /\ \A i \in 1..Len(events) : events[i].op \notin {"write", "begin", "end"}

C9_Witness ==
  /\ pc = "returned"
  /\ ret = [kind |-> "error", error |-> "System not ready"]
  /\ \E i \in 1..Len(events) : events[i].op = "not_ready"

\* C10 as stated: an outcome of a test that does not expect a reboot is a
\* success only if the window held a crash-log event and no boot banner.
C10_NoRebootTestSuccess ==
  (OutcomeReady /\ ~ExpectReboot /\ result.success) =>
     (CrashLogSeen(lines) /\ ~BannerSeen(lines))

\* C10 amended: a test that does not expect a reboot (soft_test) succeeds
\* only if a captured line holds a test marker; a boot banner is not
\* evaluated, so a window with a test-marker crash-log line and a boot
\* banner succeeds, and the outcome reports neither a crash nor a reboot.
C10_SoftTestSuccess ==
  (OutcomeReady /\ ~ExpectReboot) =>
     /\ result.success => MarkerSeen(lines)
     /\ (MarkerSeen(lines) /\ BannerSeen(lines)) => result.success
     /\ ~result.reboot_detected
     /\ ~result.crash_detected
     /\ result.crash_logs = <<>>

C10_Witness ==
  /\ OutcomeReady
  /\ ~ExpectReboot
  /\ result.success
  /\ \E i \in 1..Len(lines) : lines[i] = LineTest
  /\ BannerSeen(lines)


\* the events of the test entered last
TestEvents == SubSeq(events, LastBegin, Len(events))

IsRead(e) == e.op = "read"

\* C11: the soft self-test writes no command, applies neither the reboot
\* nor the crash-log classifier and has no recovery wait; it makes exactly
\* one read, of SoftTimeout seconds, and its outcome is a success if and
\* only if a captured line holds a test marker.
C11_SoftTestObservesOnly ==
  (LastBegin > 0 /\ LastTestName = "soft_test") =>
     /\ \A op \in {"write", "send_failed", "detect_reboot", "parse_crash_logs",
                   "recovered", "not_recovered"} : ~InTest(op)
     /\ pc \in {"soft", "fold", "loop", "returned", "raised"}
     /\ pc # "soft" =>
          LET reads == SelectSeq(TestEvents, IsRead) IN
          /\ Len(reads) = 1
          /\ reads[1].n = SoftTimeout
     /\ pc = "fold" => (result.success <=> MarkerSeen(lines))

\* a soft test succeeded on a window whose only marker line matches no
\* crash-log pattern
C11_Witness ==
  /\ pc = "fold"
  /\ result.test_name = "soft_test"
  /\ result.success
  /\ \E i \in 1..Len(lines) : lines[i] = LineMark
  /\ \A i \in 1..Len(lines) : lines[i] # LineTest


\* the quiescence delay follows the end of a test at position i of events
DelayFollows(i) == i < Len(events) /\ events[i + 1].op = "sleep"

\* another test is entered after position i of events
TestFollows(i) == \E j \in (i + 1)..Len(events) : IsBegin(events[j])

\* C12: a suite that has returned its results has entered the known
\* requested tests in the order requested, and the quiescence delay
\* follows a test if and only if another test is entered after it.
C12_DelayBetweenTests ==
  (pc = "returned" /\ ret.kind = "suite") =>
     /\ LET begun == SelectSeq(events, IsBegin) IN
        [i \in 1..Len(begun) |-> begun[i].name] = SelectSeq(tests_to_run, Known)
     /\ \A i \in 1..Len(events) :
          IsEnd(events[i]) => (DelayFollows(i) <=> TestFollows(i))


\* the readiness indicators that occur in a batch
IndicatorsIn(ls) ==
  { j \in 1..Len(ready_indicators) :
      \E i \in 1..Len(ls) : Contains(ready_indicators[j], ls[i]) }

\* C13: the readiness classifier returns true if and only if at least two
\* distinct readiness indicators occur in the batch.
C13_ReadyIffTwoDistinct ==
  "ready" \in verdict.done =>
     (verdict.ready <=> Cardinality(IndicatorsIn(lines)) >= 2)


IsSkip(e) == e.op = "skip"

\* the for loop is at an identifier that is not in the catalog
AtUnknown ==
  pc = "loop" /\ idx <= Len(tests_to_run) /\ ~Known(tests_to_run[idx])

\* C14: the loop passes an unknown identifier without touching the
\* totals, the outcomes or the port: the step only moves to the next
\* identifier; a suite that returns has entered exactly the known
\* requested tests and counted one outcome for each.
C14_UnknownSkipped ==
  /\ [][ (AtUnknown /\ pc' # "raised") =>
           /\ suite_results' = suite_results
           /\ serial_conn' = serial_conn
           /\ result' = result
           /\ ret' = ret
           /\ events' = Append(events, Ev("skip", tests_to_run[idx], idx))
           /\ idx' = idx + 1
           /\ pc' = "loop" ]_vars
  /\ [] ( (pc = "returned" /\ ret.kind = "suite") =>
           LET begun == SelectSeq(events, IsBegin)
               known == SelectSeq(tests_to_run, Known)
           IN /\ [i \in 1..Len(begun) |-> begun[i].name] = known
              /\ suite_results.summary.total = Len(known)
              /\ DOMAIN suite_results.tests = { known[i] : i \in 1..Len(known) }
              /\ Len(SelectSeq(events, IsSkip)) = Len(tests_to_run) - Len(known) )

\* an unknown identifier was skipped, a test was entered after it and the
\* suite returned
C14_Witness ==
  /\ pc = "returned"
  /\ ret.kind = "suite"
  /\ suite_results.summary.total = 1
  /\ \E i, j \in 1..Len(events) :
       i < j /\ IsSkip(events[i]) /\ IsBegin(events[j])


\* C15: a transport error at a poll, in the query of the available-byte
\* count or in the read, does not leave read_serial_with_timeout: the loop
\* goes on and the call returns.
C15_PollErrorsContained ==
  reader.last \in {"query_error", "read_error"} =>
     reader.pc \in {"loop", "returned"}

\* C16: read_serial_with_timeout ends; it returns only once the elapsed
\* time has reached the timeout, whatever data arrived; when no byte ever
\* arrived it returns no line; and it raises only when the port query
\* raised, never for lack of data.
C16_ReturnsAtTimeout ==
  /\ <>(reader.pc \in {"returned", "raised"})
  /\ [](reader.pc = "returned" => reader.elapsed >= reader.timeout)
  /\ []((reader.pc = "returned" /\ reader.received = <<>>) =>
          reader.lines = <<>>)
  /\ [](reader.pc = "raised" => reader.last = "query_error")

\* a call that had captured a line kept polling, found no data at its last
\* poll and returned at the timeout
C16_Witness ==
  /\ reader.pc = "returned"
  /\ reader.lines # <<>>
  /\ reader.last = "no_data"
  /\ reader.elapsed = reader.timeout

\* the complete, trimmed, non-empty lines of the decoding of all the bytes
\* received, taken as one string
LinesOfReceived == SplitLines(<<>>, utf8_decode(reader.received))[1]

\* C19: the lines a call returns are the complete, trimmed, non-empty lines
\* of the concatenation of all the bytes it received.
C19_LinesOfConcatenation ==
  reader.pc = "returned" => reader.lines = LinesOfReceived


\* C17: whenever run_test_suite returns, the suite outcome it returns
\* exists and has its end time set: after normal completion and also after
\* an early termination (connection failure, device not ready).
C17_EndTimeSetOnReturn ==
  pc = "returned" => (suite_results.created /\ suite_results.end_time)


\* the number of capture groups of each regular expression of
\* parse_crash_logs
GroupCount == [init |-> 1, stored |-> 0, test_logged |-> 1, recovery |-> 1]

\* the (line position, pattern position) pairs of a batch that match
MatchingPairs(ls) ==
  { q \in (1..Len(ls)) \X (1..Len(patterns)) : Matches(patterns[q[2]], ls[q[1]]) }

\* the position of a matching pair in line order, then pattern order
Rank(ls, q) ==
  1 + Cardinality({ r \in MatchingPairs(ls) :
                      r[1] < q[1] \/ (r[1] = q[1] /\ r[2] < q[2]) })

\* C18: parse_crash_logs produces exactly one event per (line, pattern)
\* pair that matches, in line order and then in pattern order; the event
\* names the pattern and the line, and its captured groups are the
\* pattern's captures, none for a pattern without groups.
C18_OneEventPerMatch ==
  "crash_logs" \in verdict.done =>
    /\ Len(verdict.crash_logs) = Cardinality(MatchingPairs(lines))
    /\ \A q \in MatchingPairs(lines) :
         LET e == verdict.crash_logs[Rank(lines, q)] IN
         /\ e.type = patterns[q[2]]
         /\ e.line = lines[q[1]]
         /\ e.data = Groups(patterns[q[2]], lines[q[1]])
         /\ Len(e.data) = GroupCount[patterns[q[2]]]

\* a classified batch with a line matching no pattern and a line matching
\* two patterns
C18_Witness ==
  /\ "crash_logs" \in verdict.done
  /\ \E i \in 1..Len(lines) : \A p \in 1..Len(patterns) : <<i, p>> \notin MatchingPairs(lines)
  /\ \E i \in 1..Len(lines) : \E p1, p2 \in 1..Len(patterns) :
       p1 # p2 /\ <<i, p1>> \in MatchingPairs(lines) /\ <<i, p2>> \in MatchingPairs(lines)
  /\ Len(verdict.crash_logs) = 2


\* the test entered last made its recovery wait
RecoveryWaited ==
  \E i \in 1..Len(TestEvents) :
     IsRead(TestEvents[i]) /\ TestEvents[i].name = "recovery"

\* C20: in every outcome run_crash_test returns, on any path,
\* crash_detected is true if and only if crash_logs is non-empty; the
\* recovery wait runs exactly when a reboot was detected; and the recovery
\* wait never turns a failed outcome into a success.
C20_CrashFlagAndRecovery ==
  /\ [](OutcomeReady =>
          /\ result.crash_detected <=> (result.crash_logs # <<>>)
          /\ result.reboot_detected <=> RecoveryWaited)
  /\ [][pc = "recovery" => (result'.success => result.success)]_vars

\* a test that rebooted with crash logs, so a success by the policy, whose
\* device did not come back within the recovery wait: the outcome is a
\* failure
C20_Witness ==
  /\ OutcomeReady
  /\ result.reboot_detected
  /\ result.crash_detected
  /\ InTest("not_recovered")
  /\ ~result.success
  /\ ~HasError(result)

====
